---- MODULE Spec2Model ----
(***************************************************************************)
(* elasticboard.py: push the Pingboard directory to Elasticsearch.         *)
(*                                                                         *)
(* One run of main(): Pingboard.__init__ extends the class-level field     *)
(* tables from the configuration, the maps and elasticsearch clients are   *)
(* connected (or left None), create_indeces prepares the index, users()    *)
(* fetches and shapes every directory record, and Pingboard.index loops    *)
(* over the shaped users: pause when the quota is used up, geocode,        *)
(* decrement the quota, upsert.                                            *)
(*                                                                         *)
(* Python values are modelled as records so that any two can be compared:  *)
(*   None           [null |-> TRUE]                                        *)
(*   str            [str |-> <<"N", "Y">>]   (the characters, in order)    *)
(*   dict           a function from keys to values                         *)
(*   'YYYY-MM-DD'   [date |-> <<y, m, d>>]   (the three numbers written)   *)
(*   datetime       [year, month, day, hour, minute, second]               *)
(***************************************************************************)
EXTENDS Integers, Sequences, FiniteSets, TLC

VARIABLES
    config,            \* parse_config's result: pingboard.custom_fields, maps, elasticsearch.hosts
    args,              \* the command line: recreate_index
    directory,         \* what the directory service answers: response['users']
    esInitial,         \* the "users" index before the run: "absent" | "old"
    fields,            \* User.fields: output name -> type
    custom_fields,     \* User.custom_fields: custom id -> output name, in insertion order
    location_fields,   \* User.location_fields
    maps,              \* Location.maps is a client (TRUE) or None (FALSE)
    elasticsearch,     \* User.elasticsearch / Pingboard.elasticsearch is a client or None
    maps_reqs_per_sec, \* Location.maps_reqs_per_sec
    users_,            \* Pingboard.users_: the shaped User objects
    quota,             \* Pingboard.index's local quota
    idx,               \* users whose loop iteration is complete (upsert done)
    pc,                \* position of main()
    exc,               \* the exception that ended the run, "none" while there is none
    esIndex,           \* the "users" index now: "absent" | "old" | "new"
    esDocs,            \* documents written by this run: doc id -> body
    now,               \* wall clock, in ticks
    calls,             \* the mapping-service calls initiated so far
    pauses,            \* time.sleep(1) calls completed so far
    errlog             \* what logger.error was given

vars == <<config, args, directory, esInitial, fields, custom_fields, location_fields,
          maps, elasticsearch, maps_reqs_per_sec, users_, quota, idx, pc, exc,
          esIndex, esDocs, now, calls, pauses, errlog>>

(***************************************************************************)
(* Bounds of the model.                                                    *)
(***************************************************************************)
MaxUsers == 2

MaxRateUsers == 5

MaxQuota == 3

MaxElapse == 1

TicksPerSec == 2

(***************************************************************************)
(* Python values.                                                          *)
(***************************************************************************)
None == [null |-> TRUE]

Absent == [absent |-> TRUE]

Str(cs) == [str |-> cs]

EmptyDict == [k \in {} |-> None]

\* a variant of Truthy: "if custom_value is not None"
TruthyIfPresent(v) == v # None

\* bool(v) for the values a custom field holds: None, '' and {} are falsy
Truthy(v) == v # None /\ v # Str(<<>>) /\ v # EmptyDict

\* d.get(k)
DictGet(d, k) == IF k \in DOMAIN d THEN d[k] ELSE None

\* d[k] = v
DictSet(d, k, v) == (k :> v) @@ d

\* sep.join(items), items a sequence of strings (each a sequence of characters)
RECURSIVE PyJoin(_, _)
PyJoin(sep, items) ==
    IF Len(items) = 0 THEN <<>>
    ELSE IF Len(items) = 1 THEN items[1]
    ELSE items[1] \o sep \o PyJoin(sep, Tail(items))

\* iterating a str yields its characters, each a str of length one
CharsOf(cs) == [i \in 1..Len(cs) |-> <<cs[i]>>]

CommaSpace == <<",", " ">>

(***************************************************************************)
(* datetime.datetime.strptime(s, '%Y-%m-%d')                               *)
(***************************************************************************)
IsLeap(y) == (y % 4 = 0 /\ y % 100 # 0) \/ y % 400 = 0

DaysIn(y, m) ==
    IF m = 2 THEN (IF IsLeap(y) THEN 29 ELSE 28)
    ELSE IF m \in {4, 6, 9, 11} THEN 30 ELSE 31

StrptimeRaises(s) ==
    LET y == s["date"][1]  m == s["date"][2]  d == s["date"][3]
    IN  ~(y \in 1..9999 /\ m \in 1..12 /\ d \in 1..DaysIn(y, m))

Strptime(s) ==
    [year |-> s["date"][1], month |-> s["date"][2], day |-> s["date"][3],
     hour |-> 0, minute |-> 0, second |-> 0]

(***************************************************************************)
(* class User: the static field table and __init__ (shaping).              *)
(***************************************************************************)
StaticFields ==
    [bio |-> "text", email |-> "keyword", first_name |-> "keyword",
     job_title |-> "text", last_name |-> "keyword", locale |-> "keyword",
     location |-> "geo_point", nickname |-> "keyword", time_zone |-> "keyword"]

\* for key, name in self.custom_fields.items(): ... self.body[name] = custom_value
RECURSIVE ApplyCustom(_, _, _)
ApplyCustom(body, cust, cfs) ==
    IF Len(cust) = 0 THEN body
    ELSE LET custom_value == DictGet(cfs, cust[1].id)
         IN  ApplyCustom(IF Truthy(custom_value)
                            THEN DictSet(body, cust[1].name, custom_value)
                            ELSE body,
                         Tail(cust), cfs)

UserInitRaises(data) ==
    data["start_date"] # None /\ StrptimeRaises(data["start_date"])

\* User.__init__: the body of the shaped user
UserBody(data, flds, cust) ==
    LET stamped == IF data["start_date"] # None
                     THEN DictSet(EmptyDict, "@timestamp", Strptime(data["start_date"]))
                     ELSE EmptyDict
        copied  == [key \in {k \in DOMAIN flds :
                                flds[k] \in {"keyword", "text"} /\ k \in DOMAIN data}
                       |-> data[key]]
        cfs     == IF "custom_fields" \in DOMAIN data THEN data["custom_fields"]
                                                      ELSE EmptyDict
    IN  ApplyCustom(copied @@ stamped, cust, cfs)

UserInit(data, flds, cust) ==
    [doc_id |-> data["id"], body |-> UserBody(data, flds, cust), location |-> None]

(***************************************************************************)
(* class Location                                                          *)
(***************************************************************************)
\* Location.__init__: self.address += ', '.join(data[name]) for the names in data
RECURSIVE LocationAddress(_, _)
LocationAddress(data, names) ==
    IF Len(names) = 0 THEN <<>>
    ELSE (IF names[1] \in DOMAIN data
            THEN PyJoin(CommaSpace, CharsOf(data[names[1]].str))
            ELSE <<>>)
         \o LocationAddress(data, Tail(names))

LocationInit(data, names) ==
    [address |-> Str(LocationAddress(data, names)), data |-> EmptyDict]

\* a variant of FirstCandidate: results[-1]
FirstOrLast(results) == results[Len(results)]

\* results[0]
FirstCandidate(results) == results[1]

\* location = results[0]['geometry']['location']; data['lat'], data['lon'] = ...
LocationData(results) ==
    LET location == FirstCandidate(results)
    IN  [lat |-> location.lat, lon |-> location.lng]

(***************************************************************************)
(* The inputs of a run: directory records, configurations, command lines.  *)
(***************************************************************************)
Field(k, v) == IF v = Absent THEN EmptyDict ELSE (k :> v)

MkRaw(start_date, email, city, team, location, custom) ==
    ("start_date" :> start_date) @@ Field("email", email) @@ Field("city", city)
    @@ Field("team", team) @@ Field("location", location)
    @@ Field("custom_fields", custom)

WithId(data, k) == DictSet(data, "id", k)

Date1 == [date |-> <<2020, 1, 15>>]

BadDate == [date |-> <<2020, 13, 1>>]

NY == Str(<<"N", "Y">>)

HQ == Str(<<"H", "Q">>)

SeqsUpTo(S, n) == UNION {[1..m -> S] : m \in 0..n}

Numbered(S) == {[k \in 1..Len(s) |-> WithId(s[k], k)] : s \in S}

MkConfig(custom, mapscfg, hosts) ==
    [pingboard |-> [custom_fields |-> custom], maps |-> mapscfg,
     elasticsearch |-> [hosts |-> hosts]]

NoMaps == [service |-> "none", fields |-> <<>>]

Google(names) == [service |-> "google", fields |-> names]

Team42 == [id |-> "42", name |-> "team", type |-> "keyword"]

Loc42 == [id |-> "42", name |-> "location", type |-> "keyword"]

\* the runs of Spec: a few records, with and without a location of their own,
\* every optional component on and off
RawRecords ==
    {MkRaw(sd, Str(<<"a">>), Str(<<"L", "A">>), Absent, Absent, ("42" :> cv)) :
        sd \in {None, Date1}, cv \in {Str(<<>>), NY}}
    \cup {MkRaw(None, email, Str(<<"L", "A">>), Absent, HQ, ("42" :> cv)) :
        email \in {Absent, Str(<<"a">>)}, cv \in {Str(<<>>), NY}}

Directories == Numbered(SeqsUpTo(RawRecords, MaxUsers))

Configs ==
    {MkConfig(custom, mapscfg, hosts) :
        custom \in {<<>>, <<Team42>>, <<Loc42>>},
        mapscfg \in {NoMaps, Google(<<"team">>), Google(<<"email", "team">>),
                     Google(<<"city">>)},
        hosts \in BOOLEAN}

\* the runs of SpecRate: up to MaxRateUsers users, with and without an address
RateRecord(addressed) ==
    MkRaw(Date1, Str(<<"a">>), Absent, Absent, Absent,
          ("42" :> (IF addressed THEN NY ELSE Str(<<>>))))

RateDirectories ==
    Numbered(SeqsUpTo({RateRecord(TRUE), RateRecord(FALSE)}, MaxRateUsers))

RateConfigs ==
    {MkConfig(<<Team42>>, mapscfg, hosts) :
        mapscfg \in {NoMaps, Google(<<"team">>)}, hosts \in BOOLEAN}

\* the runs of SpecShape: every shape of record and of field table for the first
\* user, with or without a second user after it
ShapeRecords ==
    {MkRaw(sd, email, Str(<<"L", "A">>), team, location, custom) :
        sd \in {None, Date1, BadDate},
        email \in {Absent, Str(<<"a">>)},
        team \in {Absent, Str(<<"t">>)},
        location \in {Absent, HQ},
        custom \in {Absent, EmptyDict, ("42" :> Str(<<>>)), ("42" :> NY),
                    ("42" :> NY) @@ ("7" :> Str(<<"x">>))}}

ShapeDirectories ==
    Numbered(SeqsUpTo(ShapeRecords, 1) \cup {<<r, RateRecord(TRUE)>> : r \in ShapeRecords})

CustomEntries ==
    {[id |-> i, name |-> n, type |-> t] :
        i \in {"42", "7"}, n \in {"team", "email", "location"},
        t \in {"keyword", "geo_point"}}

\* a YAML mapping: no id twice
CustomTables ==
    {<<>>} \cup {<<e>> : e \in CustomEntries}
    \cup {<<e, f>> : e \in {x \in CustomEntries : x.id = "42"},
                     f \in {x \in CustomEntries : x.id = "7"}}
    \cup {<<f, e>> : e \in {x \in CustomEntries : x.id = "42"},
                     f \in {x \in CustomEntries : x.id = "7"}}

ShapeConfigs ==
    {MkConfig(custom, mapscfg, TRUE) :
        custom \in CustomTables,
        mapscfg \in {NoMaps, Google(<<"team">>), Google(<<"email", "team">>),
                     Google(<<"team", "email">>)}}

\* what the mapping service can answer: an HTTP error, or a list of candidates
Candidate1 == [lat |-> 1, lng |-> 2]

Candidate2 == [lat |-> 3, lng |-> 4]

MapsOutcomes ==
    {[error |-> "HTTPError"]}
    \cup {[results |-> r] : r \in {<<>>, <<Candidate1>>, <<Candidate1, Candidate2>>}}

(***************************************************************************)
(* Initial states: the module as imported, main() about to start.          *)
(***************************************************************************)
Start(configs, argsets, directories, indices, limits) ==
    /\ config \in configs
    /\ args \in argsets
    /\ directory \in directories
    /\ esInitial \in indices
    /\ maps_reqs_per_sec \in limits
    /\ fields = StaticFields
    /\ custom_fields = <<>>
    /\ location_fields = <<>>
    /\ maps = FALSE
    /\ elasticsearch = FALSE
    /\ users_ = <<>>
    /\ quota = 0
    /\ idx = 0
    /\ pc = "pingboard"
    /\ exc = "none"
    /\ esIndex = esInitial
    /\ esDocs = EmptyDict
    /\ now = 0
    /\ calls = <<>>
    /\ pauses = 0
    /\ errlog = <<>>

Init ==
    Start(Configs, [recreate_index : BOOLEAN], Directories, {"absent", "old"},
          {1, 2})

InitRate ==
    Start(RateConfigs, {[recreate_index |-> FALSE]}, RateDirectories, {"old"},
          1..MaxQuota)

InitShape ==
    Start(ShapeConfigs, {[recreate_index |-> FALSE]}, ShapeDirectories, {"old"},
          {1})

(***************************************************************************)
(* main(), step by step.                                                   *)
(***************************************************************************)
\* User.fields.update({mapping['name']: {'type': mapping['type']}})
RECURSIVE ConfiguredFields(_, _)
ConfiguredFields(flds, custom) ==
    IF Len(custom) = 0 THEN flds
    ELSE ConfiguredFields(DictSet(flds, custom[1].name, custom[1].type), Tail(custom))

\* User.custom_fields.update({key: mapping['name']})
RECURSIVE ConfiguredCustom(_, _)
ConfiguredCustom(cust, custom) ==
    IF Len(custom) = 0 THEN cust
    ELSE LET at == {i \in 1..Len(cust) : cust[i].id = custom[1].id}
             entry == [id |-> custom[1].id, name |-> custom[1].name]
         IN  ConfiguredCustom(IF at = {} THEN Append(cust, entry)
                                         ELSE [i \in 1..Len(cust) |->
                                                IF i \in at THEN entry ELSE cust[i]],
                              Tail(custom))

\* Pingboard.__init__
PingboardInit ==
    /\ pc = "pingboard"
    /\ fields' = ConfiguredFields(fields, config.pingboard.custom_fields)
    /\ custom_fields' = ConfiguredCustom(custom_fields, config.pingboard.custom_fields)
    /\ pc' = "connect_maps"
    /\ UNCHANGED <<config, args, directory, esInitial, location_fields, maps,
                   elasticsearch, maps_reqs_per_sec, users_, quota, idx, exc,
                   esIndex, esDocs, now, calls, pauses, errlog>>

\* connect_maps_client
ConnectMapsClient ==
    /\ pc = "connect_maps"
    /\ IF config.maps.service # "google"
         THEN UNCHANGED <<maps, location_fields>>
         ELSE /\ maps' = TRUE
              /\ location_fields' = config.maps.fields
    /\ pc' = "connect_es"
    /\ UNCHANGED <<config, args, directory, esInitial, fields, custom_fields,
                   elasticsearch, maps_reqs_per_sec, users_, quota, idx, exc,
                   esIndex, esDocs, now, calls, pauses, errlog>>

\* connect_elasticsearch_client
ConnectElasticsearchClient ==
    /\ pc = "connect_es"
    /\ elasticsearch' = config.elasticsearch.hosts
    /\ pc' = "create_indeces"
    /\ UNCHANGED <<config, args, directory, esInitial, fields, custom_fields,
                   location_fields, maps, maps_reqs_per_sec, users_, quota, idx,
                   exc, esIndex, esDocs, now, calls, pauses, errlog>>

\* indices.delete(index="users"): a missing index is a NotFoundError
DeleteRaises(index) == index = "absent"

\* indices.create(index="users", ignore=400, ...): an existing index stays as it is
AfterCreate(index) == IF index = "absent" THEN "new" ELSE index

\* Pingboard.create_indeces
CreateIndeces ==
    /\ pc = "create_indeces"
    /\ IF ~elasticsearch
         THEN /\ pc' = "users"
              /\ UNCHANGED <<esIndex, exc>>
         ELSE IF args.recreate_index /\ DeleteRaises(esIndex)
         THEN /\ pc' = "crashed"
              /\ exc' = "NotFoundError"
              /\ UNCHANGED esIndex
         ELSE /\ esIndex' = AfterCreate(IF args.recreate_index THEN "absent" ELSE esIndex)
              /\ pc' = "users"
              /\ UNCHANGED exc
    /\ UNCHANGED <<config, args, directory, esInitial, fields, custom_fields,
                   location_fields, maps, elasticsearch, maps_reqs_per_sec, users_,
                   quota, idx, esDocs, now, calls, pauses, errlog>>

\* Pingboard.index up to its loop: quota = ..., then self.users() fetches and shapes
Users ==
    /\ pc = "users"
    /\ quota' = maps_reqs_per_sec
    /\ LET response == directory
           raising  == {k \in 1..Len(response) : UserInitRaises(response[k])}
           shaped   == IF raising = {} THEN Len(response)
                       ELSE (CHOOSE k \in raising : \A j \in raising : k <= j) - 1
       IN  IF users_ # <<>>
             THEN /\ pc' = "loop"
                  /\ UNCHANGED <<users_, exc>>
             ELSE /\ users_' = [k \in 1..shaped |->
                                  UserInit(response[k], fields, custom_fields)]
                  /\ pc' = IF raising = {} THEN "loop" ELSE "crashed"
                  /\ exc' = IF raising = {} THEN exc ELSE "ValueError"
    /\ UNCHANGED <<config, args, directory, esInitial, fields, custom_fields,
                   location_fields, maps, elasticsearch, maps_reqs_per_sec, idx,
                   esIndex, esDocs, now, calls, pauses, errlog>>

\* a variant of NeedsPause: "if quota < 0"
NeedsPauseBelowZero(q) == q < 0

\* if quota == 0:
NeedsPause(q) == q = 0

\* a variant of QuotaAfter: the decrement only when the mapping service was called
QuotaAfterIfCalled(q, called) == IF called THEN q - 1 ELSE q

\* quota -= 1, whether or not the mapping service was called
QuotaAfter(q, called) == q - 1

\* a variant of AddressSource: the address read from the raw directory record
AddressSourceRaw(user, data) == data

\* Location(self.body, ...): the dict the address is read from
AddressSource(user, data) == user.body

\* The head of a loop iteration of Pingboard.index with the quota used up:
\* time.sleep(1) returns after a second, then quota = Location.maps_reqs_per_sec.
IndexPause ==
    /\ pc = "loop"
    /\ idx < Len(users_)
    /\ NeedsPause(quota)
    /\ now' = now + TicksPerSec
    /\ pauses' = pauses + 1
    /\ quota' = maps_reqs_per_sec
    /\ pc' = "geocode"
    /\ UNCHANGED <<config, args, directory, esInitial, fields, custom_fields,
                   location_fields, maps, elasticsearch, maps_reqs_per_sec, users_,
                   idx, exc, esIndex, esDocs, calls, errlog>>

\* user.geocode() and quota -= 1 of a loop iteration of Pingboard.index, entered
\* after the pause or straight from the loop head when quota is not zero:
\* User.geocode and Location.geocode.
IndexEnrich ==
    /\ \/ pc = "geocode"
       \/ pc = "loop" /\ idx < Len(users_) /\ ~NeedsPause(quota)
    /\ LET k      == idx + 1
           user   == users_[k]
           start  == now
           q      == quota
           loc    == LocationInit(AddressSource(user, directory[k]), location_fields)
           called == maps /\ loc.address # Str(<<>>)
       IN  /\ IF ~maps
                THEN /\ quota' = QuotaAfter(q, called)
                     /\ pc' = "index"
                     /\ UNCHANGED <<users_, calls, errlog, exc>>
                ELSE IF ~called
                THEN /\ users_' = [users_ EXCEPT ![k].location = loc]
                     /\ quota' = QuotaAfter(q, called)
                     /\ pc' = "index"
                     /\ UNCHANGED <<calls, errlog, exc>>
                ELSE \E outcome \in MapsOutcomes :
                     /\ calls' = Append(calls, [user |-> k, at |-> start,
                                                address |-> loc.address,
                                                outcome |-> outcome])
                     /\ IF "error" \in DOMAIN outcome
                          THEN \* logged, then results is unbound at results[0]
                               /\ errlog' = Append(errlog, outcome.error)
                               /\ users_' = [users_ EXCEPT ![k].location = loc]
                               /\ pc' = "crashed"
                               /\ exc' = "UnboundLocalError"
                               /\ quota' = q
                          ELSE IF outcome.results = <<>>
                          THEN /\ users_' = [users_ EXCEPT ![k].location = loc]
                               /\ pc' = "crashed"
                               /\ exc' = "IndexError"
                               /\ quota' = q
                               /\ UNCHANGED errlog
                          ELSE LET data == LocationData(outcome.results)
                               IN  /\ users_' =
                                        [users_ EXCEPT
                                           ![k].location = [loc EXCEPT !.data = data],
                                           ![k].body = DictSet(user.body, "location", data)]
                                   /\ quota' = QuotaAfter(q, called)
                                   /\ pc' = "index"
                                   /\ UNCHANGED <<errlog, exc>>
    /\ UNCHANGED <<config, args, directory, esInitial, fields, custom_fields,
                   location_fields, maps, elasticsearch, maps_reqs_per_sec, idx,
                   esIndex, esDocs, now, pauses>>

\* a variant of ShouldIndex: no test of the client
ShouldIndexAlways(es) == TRUE

\* if self.elasticsearch:
ShouldIndex(es) == es

\* user.index(), the end of the loop iteration
IndexUpsert ==
    /\ pc = "index"
    /\ LET user == users_[idx + 1]
       IN  esDocs' = IF ShouldIndex(elasticsearch)
                       THEN DictSet(esDocs, user.doc_id, user.body)
                       ELSE esDocs
    /\ idx' = idx + 1
    /\ pc' = "loop"
    /\ UNCHANGED <<config, args, directory, esInitial, fields, custom_fields,
                   location_fields, maps, elasticsearch, maps_reqs_per_sec, users_,
                   quota, exc, esIndex, now, calls, pauses, errlog>>

\* the loop is exhausted: index() and main() return
IndexDone ==
    /\ pc = "loop"
    /\ idx = Len(users_)
    /\ pc' = "done"
    /\ UNCHANGED <<config, args, directory, esInitial, fields, custom_fields,
                   location_fields, maps, elasticsearch, maps_reqs_per_sec, users_,
                   quota, idx, exc, esIndex, esDocs, now, calls, pauses, errlog>>

\* Wall-clock time passing while the loop runs: a slow call, a sleep that
\* overshoots, the upsert.
Elapse ==
    /\ pc \in {"loop", "geocode", "index"}
    /\ now - pauses * TicksPerSec < MaxElapse
    /\ now' = now + 1
    /\ UNCHANGED <<config, args, directory, esInitial, fields, custom_fields,
                   location_fields, maps, elasticsearch, maps_reqs_per_sec, users_,
                   quota, idx, pc, exc, esIndex, esDocs, calls, pauses, errlog>>

Next ==
    \/ PingboardInit
    \/ ConnectMapsClient
    \/ ConnectElasticsearchClient
    \/ CreateIndeces
    \/ Users
    \/ IndexPause
    \/ IndexEnrich
    \/ IndexUpsert
    \/ IndexDone

NextTimed == Next \/ Elapse

Spec == Init /\ [][Next]_vars

SpecRate == InitRate /\ [][NextTimed]_vars

SpecShape == InitShape /\ [][Next]_vars

(***************************************************************************)
(* Vocabulary of the properties.                                           *)
(***************************************************************************)
N == maps_reqs_per_sec

GeocodeRaised == pc = "crashed" /\ exc \in {"UnboundLocalError", "IndexError"}

\* main() has reached the loop of Pingboard.index
InLoop == pc \in {"loop", "geocode", "index", "done"} \/ GeocodeRaised

\* loop iterations begun (past the loop head's test of the quota), loop iterations
\* whose user.geocode() was entered, and loop iterations that reached quota -= 1
Started == idx + (IF pc \in {"geocode", "index"} \/ GeocodeRaised THEN 1 ELSE 0)

Geocoded == idx + (IF pc = "index" \/ GeocodeRaised THEN 1 ELSE 0)

Enriched == idx + (IF pc = "index" THEN 1 ELSE 0)

CreateIndecesRan == pc \in {"users", "loop", "geocode", "index", "done", "crashed"}

MapsConfigured == config.maps.service = "google"

EsConfigured == config.elasticsearch.hosts

Answered(c) == "results" \in DOMAIN calls[c].outcome /\ calls[c].outcome.results # <<>>

Coordinates(candidate) == [lat |-> candidate.lat, lon |-> candidate.lng]

\* the document of user k as User.__init__ left it
Shaped(k) == UserBody(directory[k], fields, custom_fields)

CustomOf(data) ==
    IF "custom_fields" \in DOMAIN data THEN data["custom_fields"] ELSE EmptyDict

TextOrKeyword == {"text", "keyword"}

\* the values Python takes for false among those a custom field can hold
Falsy == {None, Str(<<>>), EmptyDict}

\* the configured custom entries whose value in the record is truthy
TruthyEntries(data) ==
    LET custom == config.pingboard.custom_fields
    IN  {i \in 1..Len(custom) : DictGet(CustomOf(data), custom[i].id) \notin Falsy}

\* the type the field table gives a name once the configuration is applied:
\* the last custom entry of that output name, else the static entry
TableType(f) ==
    LET custom == config.pingboard.custom_fields
        named  == {i \in 1..Len(custom) : custom[i].name = f}
    IN  IF named # {}
          THEN custom[CHOOSE i \in named : \A j \in named : j <= i].type
          ELSE IF f \in DOMAIN StaticFields THEN StaticFields[f] ELSE "none"

\* the configured custom entries that write the record's location: output name
\* location, truthy value
LocationWriters(data) ==
    LET custom == config.pingboard.custom_fields
    IN  {i \in TruthyEntries(data) : custom[i].name = "location"}

\* the record's own location is copied: the key is there and the configuration
\* has retyped location as text or keyword
LocationCopied(data) ==
    "location" \in DOMAIN data /\ TableType("location") \in TextOrKeyword

\* shaping leaves a location in the document of this record, and which
ShapingSetsLocation(data) == LocationWriters(data) # {} \/ LocationCopied(data)

ShapingLocation(data) ==
    LET custom  == config.pingboard.custom_fields
        writers == LocationWriters(data)
    IN  IF writers # {}
          THEN DictGet(CustomOf(data),
                       custom[CHOOSE i \in writers : \A j \in writers : j <= i].id)
          ELSE data["location"]

\* the values of the named fields that the record holds, in the order of the names
RECURSIVE Components(_, _)
Components(data, names) ==
    IF Len(names) = 0 THEN <<>>
    ELSE (IF names[1] \in DOMAIN data THEN <<data[names[1]].str>> ELSE <<>>)
         \o Components(data, Tail(names))

(***************************************************************************)
(* C1. No more than N geocoding calls are initiated within any rolling     *)
(* one-second window: two calls that are N or more calls apart are at      *)
(* least one second apart, and two calls in different batches of N loop    *)
(* iterations are separated by one second for every batch boundary         *)
(* between them.                                                           *)
(***************************************************************************)
C1_RateLimit ==
    \A a, b \in 1..Len(calls) :
        a < b =>
            /\ (b - a >= N => calls[b].at - calls[a].at >= TicksPerSec)
            /\ calls[b].at - calls[a].at >=
                   TicksPerSec * (((calls[b].user - 1) \div N) - ((calls[a].user - 1) \div N))

\* N = 2, five users each geocoded: batches of 2, 2, 1 with a pause between them
C1_Witness ==
    /\ pc = "done"
    /\ N = 2
    /\ Len(calls) = 5
    /\ pauses = 2
    /\ calls[2].at - calls[1].at < TicksPerSec
    /\ calls[3].at - calls[2].at >= TicksPerSec
    /\ calls[4].at - calls[3].at < TicksPerSec
    /\ calls[5].at - calls[4].at >= TicksPerSec

(***************************************************************************)
(* C2. When the mapping service raises an HTTP error the error is logged,  *)
(* it is not propagated, and the run goes on to upsert that user and the   *)
(* later ones.                                                             *)
(***************************************************************************)
C2_HttpErrorNotPropagated ==
    \A c \in 1..Len(calls) :
        "error" \in DOMAIN calls[c].outcome =>
            /\ errlog # <<>>
            /\ pc # "crashed"
            /\ (pc = "done" => idx = Len(directory))

(***************************************************************************)
(* C3. When the mapping service answers with zero candidates the result is *)
(* treated as absent: no crash, and the user is upserted without a         *)
(* location added.                                                         *)
(***************************************************************************)
C3_ZeroCandidatesAbsent ==
    \A c \in 1..Len(calls) :
        ("results" \in DOMAIN calls[c].outcome /\ calls[c].outcome.results = <<>>) =>
            /\ pc # "crashed"
            /\ users_[calls[c].user].body = Shaped(calls[c].user)

(***************************************************************************)
(* C4 as claimed. An unconfigured optional component never fails the run.  *)
(* With no geocoder: no mapping-service call, no exception from geocoding, *)
(* and no document has a location field.  With no index client:            *)
(* create_indeces and every User.index do nothing.  With neither, the run  *)
(* does not end early; and a run that ends normally has visited every      *)
(* fetched user.                                                           *)
(***************************************************************************)
C4_NoGeocoderNoLocation ==
    /\ ~MapsConfigured =>
          /\ calls = <<>>
          /\ exc \notin {"UnboundLocalError", "IndexError"}
          /\ \A k \in 1..Len(users_) :
                "location" \notin DOMAIN users_[k].body /\ users_[k].location = None
    /\ ~EsConfigured =>
          /\ esDocs = EmptyDict
          /\ esIndex = esInitial
          /\ exc # "NotFoundError"
    /\ (~MapsConfigured /\ ~EsConfigured) => pc # "crashed"
    /\ pc = "done" => idx = Len(directory) /\ Len(users_) = Len(directory)

(***************************************************************************)
(* C4 as amended. An unconfigured optional component never fails the run.  *)
(* With no geocoder: no mapping-service call, no exception from geocoding, *)
(* and every document stays as it was shaped, so it has a location field   *)
(* exactly when shaping put one there (a custom entry of output name       *)
(* location with a truthy value, or the record's own location copied       *)
(* because the configuration retypes location as text or keyword), with    *)
(* that value.  With no index client: create_indeces and every User.index  *)
(* do nothing.  With neither, nothing but an unparsable start date ends    *)
(* the run early; and a run that ends normally has visited every fetched   *)
(* user.                                                                   *)
(***************************************************************************)
C4_UnconfiguredDegrades ==
    /\ ~MapsConfigured =>
          /\ calls = <<>>
          /\ exc \notin {"UnboundLocalError", "IndexError"}
          /\ \A k \in 1..Len(users_) :
                /\ users_[k].body = Shaped(k)
                /\ users_[k].location = None
                /\ ("location" \in DOMAIN users_[k].body)
                      <=> ShapingSetsLocation(directory[k])
                /\ ("location" \in DOMAIN users_[k].body) =>
                      users_[k].body["location"] = ShapingLocation(directory[k])
    /\ ~EsConfigured =>
          /\ esDocs = EmptyDict
          /\ esIndex = esInitial
          /\ exc # "NotFoundError"
    /\ (~MapsConfigured /\ ~EsConfigured) => (pc = "crashed" => exc = "ValueError")
    /\ pc = "done" => idx = Len(directory) /\ Len(users_) = Len(directory)

\* neither component configured, two users visited; the first keeps the location
\* its record came with, the second has none
C4_Witness ==
    /\ pc = "done"
    /\ ~MapsConfigured
    /\ ~EsConfigured
    /\ args.recreate_index
    /\ Len(directory) = 2
    /\ idx = 2
    /\ "location" \in DOMAIN users_[1].body
    /\ users_[1].body["location"] = HQ
    /\ "location" \notin DOMAIN users_[2].body

(***************************************************************************)
(* C5. create_indeces with recreate deletes the index ignoring not-found   *)
(* and creates it ignoring already-exists: it succeeds from every initial  *)
(* index state and leaves the index existing; without recreate an existing *)
(* index is left untouched.                                                *)
(***************************************************************************)
C5_EnsureIndex ==
    (EsConfigured /\ CreateIndecesRan) =>
        /\ exc # "NotFoundError"
        /\ esIndex # "absent"
        /\ (args.recreate_index => esIndex = "new")
        /\ (~args.recreate_index /\ esInitial = "old" => esIndex = "old")

(***************************************************************************)
(* C6 as claimed. An upserted document carries a location only if the      *)
(* mapping service was called for that user with a non-empty address and   *)
(* returned a candidate, and then it is the first candidate's lat/lng; the *)
(* mapping service is never called with an empty address.                  *)
(***************************************************************************)
C6_LocationOnlyFromGeocoder ==
    /\ \A id \in DOMAIN esDocs :
          "location" \in DOMAIN esDocs[id] =>
              \E c \in 1..Len(calls) :
                  /\ calls[c].user = id
                  /\ calls[c].address # Str(<<>>)
                  /\ Answered(c)
                  /\ esDocs[id].location = Coordinates(calls[c].outcome.results[1])
    /\ \A c \in 1..Len(calls) : calls[c].address # Str(<<>>)

(***************************************************************************)
(* C6 as amended. If the mapping service was called for the user and       *)
(* returned a candidate, the upserted location is the first candidate's    *)
(* lat/lng; otherwise the document carries a location exactly when shaping *)
(* put it there: the truthy value of the last custom entry whose output    *)
(* name is location, else the record's own location when the configuration *)
(* retypes location as text or keyword.  The mapping service is never      *)
(* called with an empty address.                                           *)
(***************************************************************************)
C6_LocationFromGeocoderOrShaping ==
    /\ \A id \in DOMAIN esDocs :
          LET doc      == esDocs[id]
              answered == {c \in 1..Len(calls) : calls[c].user = id /\ Answered(c)}
          IN  IF answered # {}
                THEN /\ "location" \in DOMAIN doc
                     /\ \A c \in answered :
                           doc.location = Coordinates(calls[c].outcome.results[1])
                ELSE /\ ("location" \in DOMAIN doc) <=> ShapingSetsLocation(directory[id])
                     /\ ("location" \in DOMAIN doc) =>
                           doc.location = ShapingLocation(directory[id])
    /\ \A c \in 1..Len(calls) : calls[c].address # Str(<<>>)

\* two users upserted: the first was not geocoded (empty address) and keeps the
\* location its record came with, the second got two candidates and has the
\* first one's coordinates
C6_Witness ==
    /\ DOMAIN esDocs = {1, 2}
    /\ Len(calls) = 1
    /\ calls[1].user = 2
    /\ calls[1].outcome = [results |-> <<Candidate1, Candidate2>>]
    /\ esDocs[2]["location"] = [lat |-> 1, lon |-> 2]
    /\ LocationWriters(directory[1]) = {}
    /\ "location" \in DOMAIN esDocs[1]
    /\ esDocs[1]["location"] = HQ

(***************************************************************************)
(* The documents shaping has produced and enrichment has not yet touched.  *)
(***************************************************************************)
Pristine == (Geocoded + 1)..Len(users_)

StaticNames == {f \in DOMAIN StaticFields : StaticFields[f] \in TextOrKeyword}

(***************************************************************************)
(* C7 as claimed. The shaped document's keys are exactly: the timestamp    *)
(* iff start_date is non-null; each static text/keyword field iff the raw  *)
(* record has it (value copied); each custom output name iff the raw       *)
(* custom_fields map holds a truthy value for its id (value copied); and   *)
(* never location.                                                         *)
(***************************************************************************)
C7_ShapeKeys ==
    \A k \in Pristine :
        LET data   == directory[k]
            body   == users_[k].body
            custom == config.pingboard.custom_fields
        IN  /\ ("@timestamp" \in DOMAIN body) <=> (data["start_date"] # None)
            /\ \A f \in StaticNames :
                  /\ (f \in DOMAIN body) <=> (f \in DOMAIN data)
                  /\ (f \in DOMAIN body) => body[f] = data[f]
            /\ \A i \in 1..Len(custom) :
                  /\ (custom[i].name \in DOMAIN body) <=> (i \in TruthyEntries(data))
                  /\ (custom[i].name \in DOMAIN body) =>
                        body[custom[i].name] = DictGet(CustomOf(data), custom[i].id)
            /\ DOMAIN body \subseteq
                  {"@timestamp"} \cup StaticNames
                  \cup {custom[i].name : i \in 1..Len(custom)}
            /\ "location" \notin DOMAIN body

(***************************************************************************)
(* C7 as amended. The shaped document's keys are exactly the union of: the *)
(* timestamp if start_date is non-null; the names the field table, as      *)
(* extended by the configured custom entries, types text or keyword and    *)
(* the raw record has; the output names of the custom entries whose id has *)
(* a truthy value in custom_fields.  A key written by a custom entry holds *)
(* the value of the last such entry, any other copied key the raw value.   *)
(* location is a key only if a custom entry's output name is location.     *)
(***************************************************************************)
C7_ShapeKeysUnion ==
    \A k \in Pristine :
        LET data   == directory[k]
            body   == users_[k].body
            custom == config.pingboard.custom_fields
            truthy == TruthyEntries(data)
            names  == {custom[i].name : i \in 1..Len(custom)}
            copied == {f \in DOMAIN data :
                          TableType(f) \in TextOrKeyword
                          /\ (f \in DOMAIN StaticFields \/ f \in names)}
            writers(key) == {i \in truthy : custom[i].name = key}
        IN  /\ DOMAIN body =
                  (IF data["start_date"] # None THEN {"@timestamp"} ELSE {})
                  \cup copied \cup {custom[i].name : i \in truthy}
            /\ \A key \in DOMAIN body :
                  IF writers(key) # {}
                    THEN LET last == CHOOSE i \in writers(key) :
                                        \A j \in writers(key) : j <= i
                         IN  body[key] = DictGet(CustomOf(data), custom[last].id)
                    ELSE key \in copied => body[key] = data[key]
            /\ "location" \in DOMAIN body => "location" \in names

\* a dated record with an email and a truthy custom value written under team
C7_Witness ==
    /\ pc = "loop"
    /\ idx = 0
    /\ Len(users_) = 1
    /\ config.pingboard.custom_fields = <<Team42>>
    /\ DOMAIN users_[1].body = {"@timestamp", "email", "team"}
    /\ users_[1].body["team"] = NY
    /\ "team" \notin DOMAIN directory[1]

(***************************************************************************)
(* C8. The address passed to the geocoder is the values of the configured  *)
(* address-component fields, in configured order, joined with a comma and  *)
(* a space between consecutive components, absent fields skipped.          *)
(***************************************************************************)
C8_AddressCommaJoined ==
    \A c \in 1..Len(calls) :
        calls[c].address =
            Str(PyJoin(CommaSpace, Components(Shaped(calls[c].user), location_fields)))

(***************************************************************************)
(* C9 as claimed. Users are processed one at a time, enrichment then       *)
(* shaping then upsert: no user is shaped before the previous user has     *)
(* been upserted, and the address is built from the raw directory record.  *)
(***************************************************************************)
C9_ShapedOneAtATime ==
    /\ Len(users_) <= idx + 1
    /\ \A c \in 1..Len(calls) :
          calls[c].address =
              Str(LocationAddress(directory[calls[c].user], location_fields))

(***************************************************************************)
(* C9 as amended. Every fetched user is shaped before the loop starts;     *)
(* then users are processed one at a time in directory order, enrichment   *)
(* of a user and then the upsert of that user: a user is enriched only     *)
(* once all earlier users are upserted, and the upserted documents are     *)
(* those of the first idx users.  The address is built from the shaped     *)
(* document: a field the raw record has and the document lacks adds        *)
(* nothing to it.                                                          *)
(***************************************************************************)
C9_ShapeAllThenEnrichUpsert ==
    /\ InLoop => Len(users_) = Len(directory)
    /\ ~InLoop => calls = <<>> /\ esDocs = EmptyDict /\ idx = 0
    /\ DOMAIN esDocs = (IF elasticsearch THEN 1..idx ELSE {})
    /\ \A id \in DOMAIN esDocs : esDocs[id] = users_[id].body
    /\ \A c \in 1..Len(calls) :
          /\ calls[c].user <= idx + 1
          /\ (calls[c].user = idx + 1 => pc \in {"index", "crashed"})
          /\ (c > 1 => calls[c - 1].user < calls[c].user)
          /\ calls[c].address =
                Str(LocationAddress(Shaped(calls[c].user), location_fields))
          /\ \E i \in 1..Len(location_fields) :
                location_fields[i] \in DOMAIN Shaped(calls[c].user)

\* two users shaped, the first upserted, the second enriched and not yet upserted
C9_Witness ==
    /\ pc = "index"
    /\ idx = 1
    /\ Len(users_) = 2
    /\ Len(calls) = 2
    /\ DOMAIN esDocs = {1}
    /\ "location" \in DOMAIN users_[2].body

(***************************************************************************)
(* C10. In every loop iteration the quota counter is decremented by        *)
(* exactly one whether or not a geocoding call was made, and it is reset   *)
(* to N only after a pause taken at zero: the counter is N times the       *)
(* pauses plus one, minus the iterations done; it is within 0..N at every  *)
(* loop head; after k >= 1 iterations begun the run has paused             *)
(* floor((k-1)/N) times, so a loop over U >= 1 users that runs to its end  *)
(* pauses floor((U-1)/N) times whatever the number of geocode calls.       *)
(***************************************************************************)
C10_QuotaCounter ==
    InLoop =>
        /\ quota = N * (pauses + 1) - Enriched
        /\ (pc = "loop" => quota \in 0..N)
        /\ (pc = "geocode" => quota = N)
        /\ (pc = "index" => quota \in 0..(N - 1))
        /\ pauses = (IF Started = 0 THEN 0 ELSE (Started - 1) \div N)
        /\ (pc = "done" => Started = Len(directory))
        /\ (pc = "done" /\ Len(directory) >= 1 => pauses = (Len(directory) - 1) \div N)

\* five users, N = 2, three of them geocoded: two pauses all the same
C10_Witness ==
    /\ pc = "done"
    /\ Len(directory) = 5
    /\ N = 2
    /\ Len(calls) = 3
    /\ pauses = 2
    /\ quota = 1

====
